---- MODULE Spec2Model ----
(***************************************************************************)
(* Model of the rubble BLE data-channel Responder (src/src/ble/responder.rs)*)
(* and of the P-256 provider abstraction (src/rubble/src/p256.rs).          *)
(*                                                                         *)
(* The Responder part is a two-context state machine: the radio context    *)
(* enqueues PDUs into RX and drains TX, the responder context calls        *)
(* has_work and process_one.  process_one is modelled in the three steps   *)
(* the radio context can observe: peek (with_rx + consume_pdu_with up to   *)
(* the closure call), dispatch (the closure) and finish (commit or reject, *)
(* restore of the Consumer, return).                                       *)
(***************************************************************************)
EXTENDS Integers, Sequences, FiniteSets, TLC

VARIABLES
    rx,         \* contents of the RX queue (radio produces, Responder consumes)
    tx,         \* contents of the TX queue (Responder/L2CAP produce, radio consumes)
    rxHeld,     \* Responder.rx is Some(consumer)
    l2cap,      \* opaque state of the L2CAPState collaborator
    pc,         \* position of the responder context inside process_one
    cur,        \* the PDU handed to the dispatch closure by consume_pdu_with
    consume,    \* the Consume value returned by the dispatch closure
    ret,        \* return value of the last completed process_one
    work,       \* return value of the last has_work
    op,         \* name of the last step taken
    call,       \* history of the current (or last) process_one call: the PDUs it
                \* popped, the collaborator calls it made, the replies it enqueued
    retried,    \* history: the call before this process_one rejected its PDU
    arrived,    \* history: every PDU ever enqueued into RX, in order
    committed,  \* history: every PDU ever committed (removed) from RX, in order
    replies,    \* history: every reply the Responder itself enqueued on TX
    keys,       \* P-256: the secret keys alive, each with its public key
    rng,        \* P-256: the bytes left in the caller's Rng(&[u8])
    agreed,     \* P-256: the agree call made since the last key generation, with
                \* its outcome
    fault,      \* P-256: the panic that ended the run, if any
    test,       \* P-256: the locals of the test function that is running
    fillCall    \* P-256: the last fill_bytes call made directly on the Rng

vars == <<rx, tx, rxHeld, l2cap, pc, cur, consume, ret, work, op, call, retried,
          arrived, committed, replies, keys, rng, agreed, fault, test, fillCall>>

respVars == <<rx, tx, rxHeld, l2cap, pc, cur, consume, ret, work, op, call, retried,
              arrived, committed, replies>>

p256Vars == <<keys, rng, agreed, fault, test, fillCall>>

testVars == <<test, fillCall>>

----------------------------------------------------------------------------
(* Bounds of the model *)

\* Capacity of the RX queue, in PDUs.
RxCap == 2
\* Capacity of the TX queue, in PDUs.
TxCap == 1
\* Number of PDUs the radio delivers in one run.
MaxPdus == 3
\* Number of secret keys alive at the same time.
MaxKeys == 1
\* Largest value of the low byte of a coordinate a peer sends.
MaxCoord == 7
\* Largest of the short lengths a caller asks fill_bytes for.
MaxFill == 2

----------------------------------------------------------------------------
(* Link-layer data: Pdu, ControlPdu, FeatureSet *)

\* LL Control opcodes (Bluetooth Core, Vol 6 Part B 2.4.2).
OpTerminateInd == 2
OpUnknownRsp == 7
OpFeatureReq == 8
OpFeatureRsp == 9
\* An opcode outside the assigned range.
OpUnassigned == 255

\* FeatureSet::supported(): the process-wide feature bitmask of this stack.
SupportedFeatures == 1

\* Encoded LL Control payloads the peer can send: <<opcode, parameter>>.
ControlData ==
    { <<OpFeatureReq, 0>>, <<OpTerminateInd, 19>>, <<OpUnassigned, 0>> }

\* L2CAP fragments the peer can send.
Messages == { "m" }

Pdu(kind, data) == [kind |-> kind, data |-> data]

\* PDUs the radio can deliver into RX.
RxPdus ==
    {Pdu("Control", d) : d \in ControlData}
        \cup {Pdu("DataStart", m) : m \in Messages}
        \cup {Pdu("DataCont", m) : m \in Messages}

NoPdu == [kind |-> "None", data |-> <<>>]

\* data.read(): decode an LL Control payload into a ControlPdu.
DecodeControl(data) ==
    CASE data[1] = OpFeatureReq ->
            [type |-> "FeatureReq", opcode |-> OpFeatureReq, param |-> data[2]]
      [] data[1] = OpFeatureRsp ->
            [type |-> "FeatureRsp", opcode |-> OpFeatureRsp, param |-> data[2]]
      [] data[1] = OpUnknownRsp ->
            [type |-> "UnknownRsp", opcode |-> OpUnknownRsp, param |-> data[2]]
      [] data[1] = OpTerminateInd ->
            [type |-> "TerminateInd", opcode |-> OpTerminateInd, param |-> data[2]]
      [] OTHER ->
            [type |-> "Unknown", opcode |-> data[1], param |-> data[2]]

\* ControlPdu::opcode()
Opcode(cpdu) == cpdu.opcode

FeatureRsp(features) ==
    [type |-> "FeatureRsp", opcode |-> OpFeatureRsp, param |-> features]

UnknownRsp(unknown_type) ==
    [type |-> "UnknownRsp", opcode |-> OpUnknownRsp, param |-> unknown_type]

\* Pdu::from(&ControlPdu): encode a ControlPdu as a Control PDU.
PduFromControl(cpdu) == Pdu("Control", <<cpdu.opcode, cpdu.param>>)

----------------------------------------------------------------------------
(* PacketQueue: Producer / Consumer / Consume *)

\* Consumer::has_data
HasData(q) == q # <<>>

\* Producer::produce_pdu result: Ok if the PDU fits, QueueFull otherwise.
ProduceResult(q, cap) == IF Len(q) < cap THEN "Ok" ELSE "QueueFull"

\* Producer::produce_pdu effect on the queue contents.
ProduceQueue(q, cap, pdu) == IF Len(q) < cap THEN Append(q, pdu) ELSE q

\* Consume::on_success(result): commit iff the result is Ok, carrying the result.
OnSuccess(result) == [consume |-> (result = "Ok"), result |-> result]

NoConsume == [consume |-> FALSE, result |-> "None"]

\* A process_one call that has done nothing yet.
NoCall == [dispatched |-> <<>>, popped |-> <<>>, invoked |-> <<>>, replied |-> <<>>]

\* consume_pdu_with, after the closure returned: Commit removes the head of the
\* queue, Reject leaves the queue as it is.
ConsumeFinish(q, c) == IF c.consume THEN Tail(q) ELSE q

----------------------------------------------------------------------------
(* L2CAP collaborator (external): an opaque state moved by its two handlers *)

L2capStates == {"s0", "s1"}

\* Response fragment the collaborator may emit through the TX producer.
L2capRsp == Pdu("DataStart", "rsp")

\* What one handler call may do: move to any state, try to emit a response,
\* and return any Consume decision.
L2capOutcomes ==
    [next : L2capStates, emit : BOOLEAN,
     consume : BOOLEAN, result : {"Ok", "QueueFull"}]

L2capHandle(handler, message, txq, c) ==
    LET returned == [consume |-> c.consume, result |-> c.result]
    IN  [tx      |-> IF c.emit THEN ProduceQueue(txq, TxCap, L2capRsp) ELSE txq,
         l2cap   |-> c.next,
         consume |-> returned,
         calls   |-> <<[handler |-> handler, message |-> message,
                        returned |-> returned]>>,
         own     |-> <<>>]

\* L2CAPState::process_start(message, &mut tx)
ProcessStart(message, txq, c) == L2capHandle("process_start", message, txq, c)

\* L2CAPState::process_cont(message, &mut tx)
ProcessCont(message, txq, c) == L2capHandle("process_cont", message, txq, c)

----------------------------------------------------------------------------
(* Responder *)

\* Variant of Response without the FeatureReq arm.
ResponseNoFeatureArm(pdu) == UnknownRsp(Opcode(pdu))

\* responder.rs:62-69: the reply to a decoded LL Control PDU.
Response(pdu) ==
    IF pdu.type = "FeatureReq"
    THEN FeatureRsp(SupportedFeatures)
    ELSE UnknownRsp(Opcode(pdu))

\* Variants of ControlArm that differ in the Consume value built from the
\* result of produce_pdu: Consume::always, Consume::never, and a Consume that
\* keeps the decision but reports Ok.
ControlArmWith(data, txq, l2, mk(_)) ==
    LET reply  == PduFromControl(Response(DecodeControl(data)))
        result == ProduceResult(txq, TxCap)
    IN  [tx      |-> ProduceQueue(txq, TxCap, reply),
         l2cap   |-> l2,
         consume |-> mk(result),
         calls   |-> <<>>,
         own     |-> IF result = "Ok" THEN <<reply>> ELSE <<>>]

ConsumeAlways(result) == [consume |-> TRUE, result |-> result]

ConsumeNever(result) == [consume |-> FALSE, result |-> result]

ConsumeSilently(result) == [consume |-> (result = "Ok"), result |-> "Ok"]

ControlArmAlways(data, txq, l2) == ControlArmWith(data, txq, l2, ConsumeAlways)

ControlArmNever(data, txq, l2) == ControlArmWith(data, txq, l2, ConsumeNever)

ControlArmSilent(data, txq, l2) == ControlArmWith(data, txq, l2, ConsumeSilently)

\* Variant of ControlArm that gives up without trying the enqueue: TX is left
\* as it is and the PDU is rejected, whatever space TX has.
ControlArmGiveUp(data, txq, l2) ==
    [tx      |-> txq,
     l2cap   |-> l2,
     consume |-> ConsumeNever("QueueFull"),
     calls   |-> <<>>,
     own     |-> <<>>]

\* responder.rs:52-73: the Control arm of the dispatch closure.
ControlArm(data, txq, l2) ==
    LET pdu      == DecodeControl(data)
        response == Response(pdu)
        reply    == PduFromControl(response)
        result   == ProduceResult(txq, TxCap)
    IN  [tx      |-> ProduceQueue(txq, TxCap, reply),
         l2cap   |-> l2,
         consume |-> OnSuccess(result),
         calls   |-> <<>>,
         own     |-> IF result = "Ok" THEN <<reply>> ELSE <<>>]

\* responder.rs:74-77: the DataStart arm of the dispatch closure.
DataStartArm(message, txq, c) == ProcessStart(message, txq, c)

\* Variant of DataContArm that forwards to the start-fragment handler.
DataContArmAsStart(message, txq, c) == ProcessStart(message, txq, c)

\* responder.rs:78-81: the DataCont arm of the dispatch closure.
DataContArm(message, txq, c) == ProcessCont(message, txq, c)

\* responder.rs:51-82: the closure passed to consume_pdu_with.
Closure(pdu, txq, l2, c) ==
    CASE pdu.kind = "Control"   -> ControlArm(pdu.data, txq, l2)
      [] pdu.kind = "DataStart" -> DataStartArm(pdu.data, txq, c)
      [] pdu.kind = "DataCont"  -> DataContArm(pdu.data, txq, c)

\* Variant of HasWork that looks at the TX queue.
HasWorkTx ==
    /\ pc = "idle"
    /\ rxHeld
    /\ work' = HasData(tx)
    /\ op' = "has_work"
    /\ UNCHANGED <<rx, tx, rxHeld, l2cap, pc, cur, consume, ret, call, retried,
                   arrived, committed, replies>>
    /\ UNCHANGED p256Vars

\* Responder::has_work: with_rx(|rx, _| rx.has_data()), one read of the queue.
HasWork ==
    /\ pc = "idle"
    /\ rxHeld
    /\ work' = HasData(rx)
    /\ op' = "has_work"
    /\ UNCHANGED <<rx, tx, rxHeld, l2cap, pc, cur, consume, ret, call, retried,
                   arrived, committed, replies>>
    /\ UNCHANGED p256Vars

\* Variant of ProcessOneBegin that drops the result of consume_pdu_with and
\* returns Ok(()).
ProcessOneBeginOk ==
    /\ pc = "idle"
    /\ rxHeld
    /\ call' = NoCall
    /\ retried' = (consume.result # "None" /\ ~consume.consume)
    /\ consume' = NoConsume
    /\ IF HasData(rx)
       THEN /\ rxHeld' = FALSE
            /\ cur' = Head(rx)
            /\ pc' = "dispatch"
            /\ ret' = ret
            /\ op' = "begin"
       ELSE /\ rxHeld' = rxHeld
            /\ cur' = NoPdu
            /\ pc' = pc
            /\ ret' = "Ok"
            /\ op' = "eof"
    /\ UNCHANGED <<rx, tx, l2cap, work, arrived, committed, replies>>
    /\ UNCHANGED p256Vars

\* Responder::process_one, first step: with_rx takes the Consumer and
\* consume_pdu_with looks at the head of RX.  On an empty queue the call is
\* over: the Consumer is put back and Eof returned.
ProcessOneBegin ==
    /\ pc = "idle"
    /\ rxHeld
    /\ call' = NoCall
    /\ retried' = (consume.result # "None" /\ ~consume.consume)
    /\ consume' = NoConsume
    /\ IF HasData(rx)
       THEN /\ rxHeld' = FALSE
            /\ cur' = Head(rx)
            /\ pc' = "dispatch"
            /\ ret' = ret
            /\ op' = "begin"
       ELSE /\ rxHeld' = rxHeld
            /\ cur' = NoPdu
            /\ pc' = pc
            /\ ret' = "Eof"
            /\ op' = "eof"
    /\ UNCHANGED <<rx, tx, l2cap, work, arrived, committed, replies>>
    /\ UNCHANGED p256Vars

\* Variant of Dispatch that waits for space in TX before it answers a Control
\* PDU (a blocking enqueue).
DispatchBlocking ==
    /\ pc = "dispatch"
    /\ cur.kind = "Control" => Len(tx) < TxCap
    /\ \E c \in L2capOutcomes :
          LET out == Closure(cur, tx, l2cap, c)
          IN  /\ tx' = out.tx
              /\ l2cap' = out.l2cap
              /\ consume' = out.consume
              /\ call' = [call EXCEPT !.dispatched = Append(@, cur),
                                       !.invoked = @ \o out.calls,
                                       !.replied = @ \o out.own]
              /\ replies' = replies \o out.own
    /\ pc' = "finish"
    /\ op' = "dispatch"
    /\ UNCHANGED <<rx, rxHeld, cur, ret, work, retried, arrived, committed>>
    /\ UNCHANGED p256Vars

\* Responder::process_one, second step: the dispatch closure runs on the PDU.
Dispatch ==
    /\ pc = "dispatch"
    /\ \E c \in L2capOutcomes :
          LET out == Closure(cur, tx, l2cap, c)
          IN  /\ tx' = out.tx
              /\ l2cap' = out.l2cap
              /\ consume' = out.consume
              /\ call' = [call EXCEPT !.dispatched = Append(@, cur),
                                       !.invoked = @ \o out.calls,
                                       !.replied = @ \o out.own]
              /\ replies' = replies \o out.own
    /\ pc' = "finish"
    /\ op' = "dispatch"
    /\ UNCHANGED <<rx, rxHeld, cur, ret, work, retried, arrived, committed>>
    /\ UNCHANGED p256Vars

\* Variant of Finish that goes on with the next PDU, in the same call, after a
\* commit (a loop over consume_pdu_with).
FinishLoop ==
    /\ pc = "finish"
    /\ rx' = ConsumeFinish(rx, consume)
    /\ LET popped == SubSeq(rx, 1, Len(rx) - Len(rx'))
       IN  /\ committed' = committed \o popped
           /\ call' = [call EXCEPT !.popped = @ \o popped]
    /\ ret' = consume.result
    /\ IF consume.consume /\ HasData(rx')
       THEN /\ rxHeld' = FALSE
            /\ pc' = "dispatch"
            /\ cur' = Head(rx')
       ELSE /\ rxHeld' = TRUE
            /\ pc' = "idle"
            /\ cur' = cur
    /\ op' = "finish"
    /\ UNCHANGED <<tx, l2cap, consume, work, retried, arrived, replies>>
    /\ UNCHANGED p256Vars

\* Variant of Finish that returns an error of the closure right away, before
\* the Consumer is put back.
FinishRestoreOnOk ==
    /\ pc = "finish"
    /\ rx' = ConsumeFinish(rx, consume)
    /\ LET popped == SubSeq(rx, 1, Len(rx) - Len(rx'))
       IN  /\ committed' = committed \o popped
           /\ call' = [call EXCEPT !.popped = @ \o popped]
    /\ ret' = consume.result
    /\ rxHeld' = (consume.result = "Ok")
    /\ pc' = "idle"
    /\ op' = "finish"
    /\ UNCHANGED <<tx, l2cap, cur, consume, work, retried, arrived, replies>>
    /\ UNCHANGED p256Vars

\* Responder::process_one, last step: consume_pdu_with commits or rejects the
\* PDU, with_rx puts the Consumer back, and the closure's result is returned.
Finish ==
    /\ pc = "finish"
    /\ rx' = ConsumeFinish(rx, consume)
    /\ LET popped == SubSeq(rx, 1, Len(rx) - Len(rx'))
       IN  /\ committed' = committed \o popped
           /\ call' = [call EXCEPT !.popped = @ \o popped]
    /\ ret' = consume.result
    /\ rxHeld' = TRUE
    /\ pc' = "idle"
    /\ op' = "finish"
    /\ UNCHANGED <<tx, l2cap, cur, consume, work, retried, arrived, replies>>
    /\ UNCHANGED p256Vars

----------------------------------------------------------------------------
(* Radio context *)

\* The radio delivers a PDU: Producer::produce on RX, which fails at once,
\* leaving the queue as it is, when RX is full.
RadioRx(pdu) ==
    /\ Len(arrived) < MaxPdus
    /\ IF ProduceResult(rx, RxCap) = "Ok"
       THEN /\ rx' = ProduceQueue(rx, RxCap, pdu)
            /\ arrived' = Append(arrived, pdu)
            /\ op' = "radio_rx"
       ELSE /\ rx' = rx
            /\ arrived' = arrived
            /\ op' = "radio_rx_full"
    /\ UNCHANGED <<tx, rxHeld, l2cap, pc, cur, consume, ret, work, call, retried,
                   committed, replies>>
    /\ UNCHANGED p256Vars

\* The radio takes the next outgoing PDU from TX and transmits it.
RadioTx ==
    /\ HasData(tx)
    /\ tx' = Tail(tx)
    /\ op' = "radio_tx"
    /\ UNCHANGED <<rx, rxHeld, l2cap, pc, cur, consume, ret, work, call, retried,
                   arrived, committed, replies>>
    /\ UNCHANGED p256Vars

----------------------------------------------------------------------------
(* P-256: byte encodings *)

\* Length in bytes of one big-endian coordinate, and of a PublicKey (X then Y).
CoordLen == 32
KeyLen == 64

Zeros(n) == [i \in 1..n |-> 0]

\* Big-endian encoding of a coordinate below 256 in CoordLen bytes.
EncodeCoord(v) == Zeros(CoordLen - 1) \o <<v>>

\* Big-endian decoding of CoordLen bytes.  Every field element of the model
\* fits the last byte, so an encoding with a higher byte set stands for a
\* number beyond the field, reported as 256.
DecodeCoord(bytes) ==
    IF \E i \in 1..(CoordLen - 1) : bytes[i] # 0 THEN 256 ELSE bytes[CoordLen]

\* PublicKey([u8; 64]): X then Y.
EncodeKey(x, y) == EncodeCoord(x) \o EncodeCoord(y)

KeyX(key) == DecodeCoord(SubSeq(key, 1, CoordLen))

KeyY(key) == DecodeCoord(SubSeq(key, CoordLen + 1, KeyLen))

----------------------------------------------------------------------------
(* P-256: the curve arithmetic of the backends, on a curve of the same shape *)
(* (y^2 = x^3 - 3x + b over a prime field, prime group order, cofactor 1)   *)

FieldP == 7
CurveA == 4
CurveB == 6
GroupN == 11

Infinity == [inf |-> TRUE, x |-> 0, y |-> 0]

Point(x, y) == [inf |-> FALSE, x |-> x, y |-> y]

Generator == Point(1, 2)

Mod(v) == ((v % FieldP) + FieldP) % FieldP

FieldInv(v) == CHOOSE z \in 1..(FieldP - 1) : Mod(z * v) = 1

\* The pairs of field elements that satisfy the curve equation.
CurvePoints ==
    {xy \in (0..(FieldP - 1)) \X (0..(FieldP - 1)) :
        Mod(xy[2] * xy[2]) = Mod(xy[1] * xy[1] * xy[1] + CurveA * xy[1] + CurveB)}

\* The curve equation, for coordinates in the field.
OnCurve(x, y) == <<x, y>> \in CurvePoints

\* The third point of the line of slope lam through p1 and p2, mirrored.
ChordX(p1, p2, lam) == Mod(lam * lam - p1.x - p2.x)

ChordY(p1, lam, x3) == Point(x3, Mod(lam * (p1.x - x3) - p1.y))

ChordPoint(p1, p2, lam) == ChordY(p1, lam, ChordX(p1, p2, lam))

\* Point addition by the affine formulas (which do not read CurveB).
PointAdd(p1, p2) ==
    IF p1.inf THEN p2
    ELSE IF p2.inf THEN p1
    ELSE IF p1.x = p2.x /\ (Mod(p1.y + p2.y) = 0 \/ p1.y # p2.y) THEN Infinity
    ELSE ChordPoint(p1, p2,
                    IF p1 = p2
                    THEN Mod((3 * p1.x * p1.x + CurveA) * FieldInv(Mod(2 * p1.y)))
                    ELSE Mod((p2.y - p1.y) * FieldInv(Mod(p2.x - p1.x))))

RECURSIVE ScalarMul(_, _)
ScalarMul(k, pt) == IF k = 0 THEN Infinity ELSE PointAdd(pt, ScalarMul(k - 1, pt))

\* The secret scalars of valid key pairs.
Scalars == 1..(GroupN - 1)

\* *ring*: EphemeralPrivateKey::compute_public_key, 0x04 then X then Y.
RingComputePublicKey(d) ==
    LET q == ScalarMul(d, Generator) IN <<4>> \o EncodeKey(q.x, q.y)

\* *ring*: agree_ephemeral on an UnparsedPublicKey.  The peer key is parsed:
\* uncompressed format, both coordinates in the field, the point on the curve.
RingAgreeEphemeral(d, encoded) ==
    LET key == SubSeq(encoded, 2, Len(encoded))
        x   == KeyX(key)
        y   == KeyY(key)
    IN  IF Len(encoded) = KeyLen + 1 /\ encoded[1] = 4 /\ OnCurve(x, y)
        THEN [ok |-> TRUE, bytes |-> EncodeCoord(ScalarMul(d, Point(x, y)).x)]
        ELSE [ok |-> FALSE, bytes |-> <<>>]

\* nisty: PublicKey::try_from_bytes (uECC_valid_public_key): not the all-zero
\* point, both coordinates in the field, the point on the curve.
NistyTryFromBytes(key) ==
    LET x == KeyX(key)
        y == KeyY(key)
    IN  IF key # Zeros(KeyLen) /\ OnCurve(x, y)
        THEN [ok |-> TRUE, point |-> Point(x, y)]
        ELSE [ok |-> FALSE, point |-> Infinity]

\* nisty: a conversion of the bytes to a point that validates nothing.
NistyFromBytesUnchecked(key) ==
    [ok |-> TRUE, point |-> Point(Mod(KeyX(key)), Mod(KeyY(key)))]

\* nisty: SecretKey::agree, an error iff the product is the point at infinity.
NistyBackendAgree(d, pt) ==
    LET q == ScalarMul(d, pt)
    IN  IF q.inf THEN [ok |-> FALSE, bytes |-> <<>>]
        ELSE [ok |-> TRUE, bytes |-> EncodeCoord(q.x)]

\* nisty: Keypair::generate_patiently(seed), a valid key pair that is a
\* function of the seed.
NistyGeneratePatiently(seed) ==
    LET RECURSIVE Sum(_)
        Sum(b) == IF b = <<>> THEN 0 ELSE Head(b) + Sum(Tail(b))
        d == (Sum(seed) % (GroupN - 1)) + 1
        q == ScalarMul(d, Generator)
    IN  [secret |-> d, public |-> EncodeKey(q.x, q.y)]

----------------------------------------------------------------------------
(* P-256: the providers (src/rubble/src/p256.rs) *)

\* run_tests: the pregenerated entropy.
RNG ==
    << 30, 102, 129, 182, 163, 78, 6, 151, 117, 190, 212, 92, 249, 82, 63,
       241, 91, 106, 114, 226, 184, 53, 179, 41, 94, 224, 187, 146, 53, 165,
       185, 96, 201, 175, 226, 114, 18, 241, 196, 252, 16, 45, 99, 47, 5,
       214, 229, 10, 191, 44, 185, 2, 58, 103, 35, 99, 54, 122, 98, 230,
       99, 206, 40, 152 >>

\* run_tests: the malicious public key that is not on the curve.
AttackKey ==
    << 183, 11, 240, 67, 193, 68, 147, 87, 86, 248, 244, 87, 140, 54, 156,
       249, 96, 238, 81, 10, 90, 15, 144, 233, 58, 55, 58, 33, 240, 209,
       57, 127 >>
    \o
    << 74, 46, 13, 237, 87, 165, 21, 107, 184, 46, 180, 49, 76, 55, 253,
       65, 85, 57, 90, 126, 81, 152, 138, 242, 137, 204, 229, 49, 185, 193,
       113, 146 >>

\* run_tests: PublicKey([0; 64]), the point at infinity.
InfinityKey == Zeros(KeyLen)

\* Variant of FillBytes that does not advance the stream.
FillBytesNoAdvance(stream, n) ==
    IF Len(stream) < n
    THEN [panic |-> "ran out of pregenerated entropy", dest |-> <<>>, rest |-> stream]
    ELSE IF Len(stream) = 0
    THEN [panic |-> "chunk size must be non-zero", dest |-> <<>>, rest |-> stream]
    ELSE [panic |-> "none", dest |-> SubSeq(stream, 1, n), rest |-> stream]

\* run_tests::Rng::fill_bytes(dest) with dest.len() = n: panics when fewer
\* than n bytes are left, and in dest.chunks_mut(self.0.len()) when none is
\* left at all (a chunk size of 0); else copies the next n bytes and advances.
FillBytes(stream, n) ==
    IF Len(stream) < n
    THEN [panic |-> "ran out of pregenerated entropy", dest |-> <<>>, rest |-> stream]
    ELSE IF Len(stream) = 0
    THEN [panic |-> "chunk size must be non-zero", dest |-> <<>>, rest |-> stream]
    ELSE [panic |-> "none", dest |-> SubSeq(stream, 1, n),
          rest |-> SubSeq(stream, n + 1, Len(stream))]

Providers == {"ring", "nisty"}

\* Length of the seed NistyProvider draws from the rng.
SeedLen == 32

NoKeypair == [provider |-> "none", secret |-> 0, public |-> <<>>]

\* Variant of RingGenerateKeypair that copies the first 64 octets of ring's
\* encoding, format octet included.
RingGenerateKeypairNoStrip(d, stream) ==
    LET public == RingComputePublicKey(d)
    IN  [panic |-> "none", rest |-> stream,
         pair |-> [provider |-> "ring", secret |-> d,
                   public |-> SubSeq(public, 1, Len(public) - 1)]]

\* RingProvider::generate_keypair with the scalar d drawn by SystemRandom:
\* the first octet of ring's encoding is stripped; the rng is not used.
RingGenerateKeypair(d, stream) ==
    LET public == RingComputePublicKey(d)
    IN  [panic |-> "none", rest |-> stream,
         pair |-> [provider |-> "ring", secret |-> d,
                   public |-> SubSeq(public, 2, Len(public))]]

\* Variant of NistyGenerateKeypair that does not fill the seed from the rng:
\* the seed stays all zero.
NistyGenerateKeypairNoFill(stream) ==
    LET pair == NistyGeneratePatiently(Zeros(SeedLen))
    IN  [panic |-> "none", rest |-> stream,
         pair |-> [provider |-> "nisty", secret |-> pair.secret,
                   public |-> pair.public]]

\* NistyProvider::generate_keypair: a 32-byte seed from the rng.
NistyGenerateKeypair(stream) ==
    LET filled == FillBytes(stream, SeedLen)
        pair   == NistyGeneratePatiently(filled.dest)
    IN  IF filled.panic # "none"
        THEN [panic |-> filled.panic, rest |-> filled.rest, pair |-> NoKeypair]
        ELSE [panic |-> "none", rest |-> filled.rest,
              pair |-> [provider |-> "nisty", secret |-> pair.secret,
                        public |-> pair.public]]

AgreeOk(bytes) == [result |-> "Ok", shared |-> bytes]

AgreeErr == [result |-> "InvalidPublicKey", shared |-> <<>>]

AgreePanic == [result |-> "Panic", shared |-> <<>>]

\* No agreement made yet.
NoResult == [result |-> "None", shared |-> <<>>]

\* Variant of RingAgree that leaves the format octet of the encoding unset.
RingAgreeNoPrefix(d, foreign_key) ==
    LET encoded == <<0>> \o foreign_key
        r       == RingAgreeEphemeral(d, encoded)
    IN  IF r.ok THEN AgreeOk(r.bytes) ELSE AgreeErr

\* Variant of RingAgree that unwraps the result of agree_ephemeral.
RingAgreeUnwrap(d, foreign_key) ==
    LET encoded == <<4>> \o foreign_key
        r       == RingAgreeEphemeral(d, encoded)
    IN  IF r.ok THEN AgreeOk(r.bytes) ELSE AgreePanic

\* RingSecretKey::agree: 0x04 is put in front of the 64 bytes and the backend's
\* error becomes InvalidPublicKey.
RingAgree(d, foreign_key) ==
    LET encoded == <<4>> \o foreign_key
        r       == RingAgreeEphemeral(d, encoded)
    IN  IF r.ok THEN AgreeOk(r.bytes) ELSE AgreeErr

\* Variant of NistyAgree that converts the foreign key without validating it.
NistyAgreeUnchecked(d, foreign_key) ==
    LET public == NistyFromBytesUnchecked(foreign_key)
        r      == NistyBackendAgree(d, public.point)
    IN  IF r.ok THEN AgreeOk(r.bytes) ELSE AgreePanic

\* Variant of NistyAgree that reads the two coordinates least significant
\* byte first.
NistyAgreeLittleEndian(d, foreign_key) ==
    LET Reverse(b) == [i \in 1..Len(b) |-> b[Len(b) + 1 - i]]
        swapped == Reverse(SubSeq(foreign_key, 1, CoordLen))
                       \o Reverse(SubSeq(foreign_key, CoordLen + 1, KeyLen))
        public == NistyTryFromBytes(swapped)
        r      == NistyBackendAgree(d, public.point)
    IN  IF ~public.ok THEN AgreeErr
        ELSE IF r.ok THEN AgreeOk(r.bytes) ELSE AgreePanic

\* NistySecretKey::agree: try_from_bytes, its error mapped to InvalidPublicKey,
\* then the backend agreement, unwrapped.
NistyAgree(d, foreign_key) ==
    LET public == NistyTryFromBytes(foreign_key)
        r      == NistyBackendAgree(d, public.point)
    IN  IF ~public.ok THEN AgreeErr
        ELSE IF r.ok THEN AgreeOk(r.bytes) ELSE AgreePanic

\* SecretKey::agree of the provider that made the key.
SecretKeyAgree(key, foreign_key) ==
    IF key.provider = "ring"
    THEN RingAgree(key.secret, foreign_key)
    ELSE NistyAgree(key.secret, foreign_key)

\* The public keys a peer can send: every pair of small coordinates (valid
\* points, points off the curve, the all-zero key, coordinates beyond the
\* field), a key with a high byte set, and the attack vector of run_tests.
ForeignKeys ==
    {EncodeKey(x, y) : x \in 0..MaxCoord, y \in 0..MaxCoord}
        \cup {AttackKey, <<1>> \o Zeros(KeyLen - 1)}

NoAgreement ==
    [provider |-> "none", foreign |-> <<>>, result |-> "None", shared |-> <<>>]

\* P256Provider::generate_keypair on either provider.
GenerateKeypair ==
    /\ fault = "none"
    /\ Len(keys) < MaxKeys
    /\ \E out \in {RingGenerateKeypair(d, rng) : d \in Scalars}
                     \cup {NistyGenerateKeypair(rng)} :
          /\ rng' = out.rest
          /\ fault' = out.panic
          /\ keys' = IF out.panic = "none" THEN Append(keys, out.pair) ELSE keys
    /\ agreed' = NoAgreement
    /\ UNCHANGED testVars
    /\ UNCHANGED respVars

\* The caller makes a fresh Rng(RNG), as run_tests does before each of its
\* later key generations.
NewRng ==
    /\ fault = "none"
    /\ rng # RNG
    /\ rng' = RNG
    /\ UNCHANGED <<keys, agreed, fault>>
    /\ UNCHANGED testVars
    /\ UNCHANGED respVars

\* Variant of Agree that takes the secret key by reference: the key is still
\* there after the call.
AgreeByReference ==
    /\ fault = "none"
    /\ \E i \in 1..Len(keys), fk \in ForeignKeys :
          LET out == SecretKeyAgree(keys[i], fk)
          IN  /\ agreed' = [provider |-> keys[i].provider,
                            foreign |-> fk,
                            result |-> out.result,
                            shared |-> out.shared]
              /\ fault' = IF out.result = "Panic" THEN "unwrap" ELSE "none"
              /\ keys' = keys
    /\ UNCHANGED rng
    /\ UNCHANGED testVars
    /\ UNCHANGED respVars

\* SecretKey::agree(self, &foreign_key): the secret key is moved into the call
\* and is gone afterwards.
Agree ==
    /\ fault = "none"
    /\ \E i \in 1..Len(keys), fk \in ForeignKeys :
          LET out == SecretKeyAgree(keys[i], fk)
          IN  /\ agreed' = [provider |-> keys[i].provider,
                            foreign |-> fk,
                            result |-> out.result,
                            shared |-> out.shared]
              /\ fault' = IF out.result = "Panic" THEN "unwrap" ELSE "none"
              /\ keys' = [j \in 1..(Len(keys) - 1) |->
                             IF j < i THEN keys[j] ELSE keys[j + 1]]
    /\ UNCHANGED rng
    /\ UNCHANGED testVars
    /\ UNCHANGED respVars

\* No test function has started.
NoTest ==
    [name |-> "none", pc |-> "start", provider |-> "none", stream |-> <<>>,
     secret1 |-> NoKeypair, public1 |-> <<>>,
     secret2 |-> NoKeypair, public2 |-> <<>>,
     shared1 |-> NoResult, shared2 |-> NoResult,
     secret |-> NoKeypair, invalid |-> NoResult]

\* No fill_bytes call has been made directly.
NoFill ==
    [called |-> FALSE, n |-> 0, before |-> <<>>, dest |-> <<>>, rest |-> <<>>,
     panic |-> "none"]

InitP256 ==
    /\ keys = <<>>
    /\ rng = RNG
    /\ agreed = NoAgreement
    /\ fault = "none"
    /\ test = NoTest
    /\ fillCall = NoFill

NextP256 ==
    \/ GenerateKeypair
    \/ NewRng
    \/ Agree

----------------------------------------------------------------------------
(* P-256: the test functions (run_tests and tests::ring_nisty_agreement) *)

\* tests::ring_nisty_agreement::Rng::fill_bytes: every byte is 0xAA, and the
\* source never runs out.
ConstRngBytes(n) == [i \in 1..n |-> 170]

\* provider.generate_keypair(&mut rng) of the provider under test; d is the
\* scalar *ring* draws from SystemRandom.
ProviderGenerateKeypair(p, d, stream) ==
    IF p = "ring" THEN RingGenerateKeypair(d, stream) ELSE NistyGenerateKeypair(stream)

\* run_tests: let mut rng = Rng(RNG) and the first generate_keypair.
RunTestsGenerate1 ==
    /\ fault = "none"
    /\ test.name = "none"
    /\ \E p \in Providers, d \in Scalars :
          LET out == ProviderGenerateKeypair(p, d, RNG)
          IN  /\ rng' = out.rest
              /\ fault' = out.panic
              /\ test' = [test EXCEPT !.name = "run_tests", !.provider = p,
                                      !.stream = RNG,
                                      !.pc = "generate2",
                                      !.secret1 = out.pair,
                                      !.public1 = out.pair.public]
    /\ UNCHANGED <<keys, agreed, fillCall>>
    /\ UNCHANGED respVars

\* run_tests: the second generate_keypair, on the same rng, and assert_ne.
RunTestsGenerate2 ==
    /\ fault = "none"
    /\ test.name = "run_tests"
    /\ test.pc = "generate2"
    /\ \E d \in Scalars :
          LET out == ProviderGenerateKeypair(test.provider, d, rng)
          IN  /\ rng' = out.rest
              /\ fault' = IF out.panic # "none" THEN out.panic
                          ELSE IF out.pair.public = test.public1 THEN "assert_ne"
                          ELSE "none"
              /\ test' = [test EXCEPT !.pc = "agree1",
                                      !.secret2 = out.pair,
                                      !.public2 = out.pair.public]
    /\ UNCHANGED <<keys, agreed, fillCall>>
    /\ UNCHANGED respVars

\* The byte streams a caller of generate_keypair hands over in its rng: the
\* entropy of run_tests, and 64 bytes of a source that repeats itself, as the
\* constant Rng of tests::ring_nisty_agreement does.
CallerStreams == {RNG, ConstRngBytes(KeyLen)}

\* Any caller of P256Provider::generate_keypair: a first key pair from a
\* new rng.
CallerGenerate1 ==
    /\ fault = "none"
    /\ test.name = "none"
    /\ \E p \in Providers, d \in Scalars, stream \in CallerStreams :
          LET out == ProviderGenerateKeypair(p, d, stream)
          IN  /\ rng' = out.rest
              /\ fault' = out.panic
              /\ test' = [test EXCEPT !.name = "caller", !.provider = p,
                                      !.stream = stream,
                                      !.pc = "generate2",
                                      !.secret1 = out.pair,
                                      !.public1 = out.pair.public]
    /\ UNCHANGED <<keys, agreed, fillCall>>
    /\ UNCHANGED respVars

\* Any caller of P256Provider::generate_keypair: a second key pair from the
\* same provider and the same rng.
CallerGenerate2 ==
    /\ fault = "none"
    /\ test.name = "caller"
    /\ test.pc = "generate2"
    /\ \E d \in Scalars :
          LET out == ProviderGenerateKeypair(test.provider, d, rng)
          IN  /\ rng' = out.rest
              /\ fault' = out.panic
              /\ test' = [test EXCEPT !.pc = "done",
                                      !.secret2 = out.pair,
                                      !.public2 = out.pair.public]
    /\ UNCHANGED <<keys, agreed, fillCall>>
    /\ UNCHANGED respVars

\* tests::ring_nisty_agreement: a key pair of RingProvider and one of
\* NistyProvider, both handed the constant Rng.
RingNistyGenerate ==
    /\ fault = "none"
    /\ test.name = "none"
    /\ \E d \in Scalars :
          LET r == RingGenerateKeypair(d, ConstRngBytes(SeedLen))
              n == NistyGenerateKeypair(ConstRngBytes(SeedLen))
          IN  /\ fault' = IF r.panic # "none" THEN r.panic ELSE n.panic
              /\ test' = [test EXCEPT !.name = "ring_nisty_agreement",
                                      !.provider = "both",
                                      !.pc = "agree1",
                                      !.secret1 = r.pair,
                                      !.public1 = r.pair.public,
                                      !.secret2 = n.pair,
                                      !.public2 = n.pair.public]
    /\ UNCHANGED <<keys, rng, agreed, fillCall>>
    /\ UNCHANGED respVars

\* secret1.agree(&public2).unwrap(): the first secret key is moved into the
\* call.
TestAgree1 ==
    /\ fault = "none"
    /\ test.pc = "agree1"
    /\ LET out == SecretKeyAgree(test.secret1, test.public2)
       IN  /\ fault' = IF out.result = "Panic" THEN "agree"
                       ELSE IF out.result # "Ok" THEN "unwrap" ELSE "none"
           /\ test' = [test EXCEPT !.pc = "agree2",
                                   !.secret1 = NoKeypair,
                                   !.shared1 = out]
    /\ UNCHANGED <<keys, rng, agreed, fillCall>>
    /\ UNCHANGED respVars

\* secret2.agree(&public1).unwrap() and assert_eq on the two shared secrets.
TestAgree2 ==
    /\ fault = "none"
    /\ test.pc = "agree2"
    /\ LET out == SecretKeyAgree(test.secret2, test.public1)
       IN  /\ fault' = IF out.result = "Panic" THEN "agree"
                       ELSE IF out.result # "Ok" THEN "unwrap"
                       ELSE IF out.shared # test.shared1.shared THEN "assert_eq"
                       ELSE "none"
           /\ test' = [test EXCEPT
                          !.pc = IF test.name = "run_tests" THEN "generate3"
                                                            ELSE "done",
                          !.secret2 = NoKeypair,
                          !.shared2 = out]
    /\ UNCHANGED <<keys, rng, agreed, fillCall>>
    /\ UNCHANGED respVars

\* run_tests: provider.generate_keypair(&mut Rng(RNG)), on a new Rng each
\* time, before each of the two agreements with an invalid key.
RunTestsGenerateFresh ==
    /\ fault = "none"
    /\ test.pc \in {"generate3", "generate4"}
    /\ \E d \in Scalars :
          LET out == ProviderGenerateKeypair(test.provider, d, RNG)
          IN  /\ fault' = out.panic
              /\ test' = [test EXCEPT
                             !.pc = IF test.pc = "generate3" THEN "infinity"
                                                             ELSE "attack",
                             !.secret = out.pair,
                             !.invalid = NoResult]
    /\ UNCHANGED <<keys, rng, agreed, fillCall>>
    /\ UNCHANGED respVars

\* run_tests: assert!(secret.agree(&infty).is_err()), and the same with the
\* attack vector.
RunTestsAgreeInvalid ==
    /\ fault = "none"
    /\ test.pc \in {"infinity", "attack"}
    /\ LET key == IF test.pc = "infinity" THEN InfinityKey ELSE AttackKey
           out == SecretKeyAgree(test.secret, key)
       IN  /\ fault' = IF out.result = "Panic" THEN "agree"
                       ELSE IF out.result = "Ok" THEN "assert" ELSE "none"
           /\ test' = [test EXCEPT
                          !.pc = IF test.pc = "infinity" THEN "generate4"
                                                         ELSE "done",
                          !.secret = NoKeypair,
                          !.invalid = out]
    /\ UNCHANGED <<keys, rng, agreed, fillCall>>
    /\ UNCHANGED respVars

\* The lengths fill_bytes is asked for: short ones from 0 on, the 4 and 8
\* bytes of next_u32 and next_u64, and the 32-byte seed.
RequestLens == (0..MaxFill) \cup {4, 8, SeedLen}

\* A direct call rng.fill_bytes(dest) with dest.len() = n on the Rng of
\* run_tests.
FillBytesCall(n) ==
    /\ fault = "none"
    /\ LET out == FillBytes(rng, n)
       IN  /\ rng' = out.rest
           /\ fault' = out.panic
           /\ fillCall' = [called |-> TRUE, n |-> n, before |-> rng,
                           dest |-> out.dest, rest |-> out.rest,
                           panic |-> out.panic]
    /\ UNCHANGED <<keys, agreed, test>>
    /\ UNCHANGED respVars

NextRng ==
    \/ \E n \in RequestLens : FillBytesCall(n)
    \/ NewRng

NextTests ==
    \/ RunTestsGenerate1
    \/ RunTestsGenerate2
    \/ CallerGenerate1
    \/ CallerGenerate2
    \/ RingNistyGenerate
    \/ TestAgree1
    \/ TestAgree2
    \/ RunTestsGenerateFresh
    \/ RunTestsAgreeInvalid

----------------------------------------------------------------------------
(* Specification of the Responder *)

InitResponder ==
    /\ rx = <<>>
    /\ tx = <<>>
    /\ rxHeld = TRUE
    /\ l2cap = "s0"
    /\ pc = "idle"
    /\ cur = NoPdu
    /\ consume = NoConsume
    /\ ret = "None"
    /\ work = FALSE
    /\ op = "new"
    /\ call = NoCall
    /\ retried = FALSE
    /\ arrived = <<>>
    /\ committed = <<>>
    /\ replies = <<>>

Init == InitResponder /\ InitP256

Next ==
    \/ \E pdu \in RxPdus : RadioRx(pdu)
    \/ RadioTx
    \/ HasWork
    \/ ProcessOneBegin
    \/ Dispatch
    \/ Finish

Spec == Init /\ [][Next]_vars

\* The P-256 providers, driven by any caller.
SpecP256 == Init /\ [][NextP256]_vars

\* The test functions of the P-256 providers.
SpecTests == Init /\ [][NextTests]_vars

\* The Rng of run_tests, asked for bytes by any caller.
SpecRng == Init /\ [][NextRng]_vars

\* The Responder with a radio that keeps draining TX and a caller that keeps
\* calling process_one while RX holds a PDU; a call that has started runs to
\* its return.
Fairness ==
    /\ WF_vars(RadioTx)
    /\ WF_vars(HasData(rx) /\ ProcessOneBegin)
    /\ WF_vars(Dispatch)
    /\ WF_vars(Finish)

SpecLive == Init /\ [][Next]_vars /\ Fairness

----------------------------------------------------------------------------
(* Properties of the Responder *)

IsControl(pdu) == pdu.kind = "Control"

IsData(pdu) == pdu.kind \in {"DataStart", "DataCont"}

\* The reply the link layer owes to an encoded LL Control payload, on the wire:
\* LL_FEATURE_RSP with the local features for LL_FEATURE_REQ, LL_UNKNOWN_RSP
\* naming the opcode for anything else.
ExpectedReply(data) ==
    IF data[1] = OpFeatureReq
    THEN Pdu("Control", <<OpFeatureRsp, SupportedFeatures>>)
    ELSE Pdu("Control", <<OpUnknownRsp, data[1]>>)

ExpectedReplies(pdus) ==
    LET ctl == SelectSeq(pdus, IsControl)
    IN  [i \in 1..Len(ctl) |-> ExpectedReply(ctl[i].data)]

\* The last completed process_one call rejected its PDU.
LastRejected == pc = "idle" /\ consume.result # "None" /\ ~consume.consume

\* C1: backpressure retention. When the closure runs on a Control PDU and TX
\* is full, TX and RX keep their contents and the PDU is rejected; a rejected
\* PDU stays at the head of RX and is the PDU the next process_one call is
\* offered; and RX only ever shrinks in the finish step of a call that
\* committed, which for a Control PDU is a call whose reply was enqueued.
C1_BackpressureRetention ==
    /\ [][(op' = "dispatch" /\ IsControl(cur) /\ Len(tx) >= TxCap)
            => (tx' = tx /\ rx' = rx /\ ~consume'.consume
                /\ replies' = replies)]_vars
    /\ [][(op' = "finish" /\ ~consume.consume)
            => (rx' = rx /\ tx' = tx /\ HasData(rx') /\ Head(rx') = cur)]_vars
    /\ [][(op' = "begin" /\ LastRejected) => cur' = cur]_vars
    /\ [][Len(rx') < Len(rx)
            => (/\ op' = "finish"
                /\ consume.consume
                /\ rx' = Tail(rx)
                /\ IsControl(cur) =>
                      /\ call.replied = <<ExpectedReply(cur.data)>>
                      /\ consume.result = "Ok")]_vars

\* C1 witness: a Control PDU was rejected twice in a row for lack of TX space
\* and is still at the head of RX.
C1_Witness ==
    /\ LastRejected
    /\ retried
    /\ IsControl(cur)
    /\ ret = "QueueFull"
    /\ call.replied = <<>>
    /\ Len(tx) = TxCap
    /\ Head(rx) = cur

\* C2: control negotiation. The closure run on a Control PDU with TX space
\* enqueues exactly one reply, the one owed to that PDU; and every reply the
\* Responder ever enqueued is a FeatureRsp or an UnknownRsp.
C2_ControlNegotiation ==
    /\ [][(op' = "dispatch" /\ IsControl(cur) /\ Len(tx) < TxCap)
            => (/\ tx' = Append(tx, ExpectedReply(cur.data))
                /\ replies' = Append(replies, ExpectedReply(cur.data))
                /\ call'.replied = <<ExpectedReply(cur.data)>>)]_vars
    /\ [](\A i \in 1..Len(replies) :
             /\ IsControl(replies[i])
             /\ replies[i].data[1] \in {OpFeatureRsp, OpUnknownRsp}
             /\ replies[i].data[1] = OpFeatureRsp
                   => replies[i].data[2] = SupportedFeatures)

\* C2 witness: a FeatureReq, a known opcode and an unassigned opcode have all
\* been answered.
C2_Witness ==
    /\ \E i \in 1..Len(replies) :
          replies[i].data = <<OpFeatureRsp, SupportedFeatures>>
    /\ \E i \in 1..Len(replies) :
          replies[i].data = <<OpUnknownRsp, OpTerminateInd>>
    /\ \E i \in 1..Len(replies) :
          replies[i].data = <<OpUnknownRsp, OpUnassigned>>

\* C3: no reply lost or duplicated. Between calls the replies the Responder
\* has enqueued are exactly the replies owed to the committed Control PDUs, one
\* each and in order; inside a call they are ahead by the reply of the PDU in
\* flight, and only once that reply is enqueued and the PDU about to commit.
C3_NoReplyLostOrDuplicated ==
    replies =
        IF pc = "finish" /\ IsControl(cur) /\ consume.consume
        THEN Append(ExpectedReplies(committed), ExpectedReply(cur.data))
        ELSE ExpectedReplies(committed)

\* C3 witness: a Control PDU that was rejected and then committed, after an
\* earlier Control PDU, with one reply for each.
C3_Witness ==
    /\ pc = "idle"
    /\ retried
    /\ IsControl(cur)
    /\ call.popped = <<cur>>
    /\ Len(replies) = 2

\* C4: ordering. The PDUs ever enqueued into RX are the committed ones
\* followed by the ones still queued, so the committed sequence is a prefix of
\* the arrivals; the PDU a call works on is the first one not yet committed;
\* and the replies are in the order of the Control PDUs' arrival.
C4_Ordering ==
    /\ arrived = committed \o rx
    /\ pc # "idle" => cur = arrived[Len(committed) + 1]
    /\ Len(replies) <= Len(ExpectedReplies(arrived))
    /\ \A i \in 1..Len(replies) : replies[i] = ExpectedReplies(arrived)[i]

\* C4 witness: three PDUs committed, the second one after a rejection, with
\* different replies owed to the Control PDUs among them.
C4_Witness ==
    /\ Len(committed) = 3
    /\ rx = <<>>
    /\ retried
    /\ Len(replies) = 2
    /\ replies[1] # replies[2]

\* C6: process_one on an empty RX queue returns Eof, is over in that step with
\* the Consumer back in place, and changes neither queue, nor the collaborator,
\* nor the histories; it dispatches nothing and calls no handler.
C6_EofChangesNothing ==
    [][(op' \in {"begin", "eof"} /\ ~HasData(rx))
          => (/\ ret' = "Eof"
              /\ pc' = "idle"
              /\ rxHeld'
              /\ rx' = rx /\ tx' = tx /\ l2cap' = l2cap
              /\ replies' = replies /\ committed' = committed
              /\ call' = NoCall)]_vars

\* C6 witness: Eof returned once every delivered PDU has been committed.
C6_Witness ==
    /\ op = "eof"
    /\ ret = "Eof"
    /\ Len(committed) = 2
    /\ call = NoCall

\* C7: has_work returns whether RX is non-empty at that moment and changes
\* neither queue nor the collaborator; after a rejection it returns true.
C7_HasWork ==
    /\ [][op' = "has_work"
            => (/\ work' = (Len(rx) > 0)
                /\ rx' = rx /\ tx' = tx /\ l2cap' = l2cap
                /\ pc' = pc /\ rxHeld' = rxHeld)]_vars
    /\ [][(op' = "has_work" /\ LastRejected) => work']_vars

\* C7 witness: has_work answered true while a rejected PDU sits at the head
\* of RX and TX is not empty.
C7_Witness ==
    /\ op = "has_work"
    /\ work
    /\ LastRejected
    /\ Head(rx) = cur
    /\ HasData(tx)

\* C8: data PDUs. The closure run on a DataStart (DataCont) PDU makes exactly
\* one collaborator call, to process_start (process_cont), with the PDU's
\* message; the Consume value of the call is what that handler returned; the
\* Responder enqueues no reply of its own, so TX gains at most what the
\* collaborator emitted; and the finish step removes the PDU iff that value
\* says commit, leaving it at the head of RX otherwise.
C8_DataForwarding ==
    /\ [][(op' = "dispatch" /\ IsData(cur))
            => (/\ Len(call'.invoked) = 1
                /\ call'.invoked[1].handler =
                      (IF cur.kind = "DataStart" THEN "process_start"
                                                 ELSE "process_cont")
                /\ call'.invoked[1].message = cur.data
                /\ consume' = call'.invoked[1].returned
                /\ call'.replied = <<>>
                /\ replies' = replies
                /\ tx' \in {tx, Append(tx, L2capRsp)}
                /\ rx' = rx)]_vars
    /\ [][(op' = "finish" /\ IsData(cur))
            => (/\ consume.consume => (rx' = Tail(rx) /\ call'.popped = <<cur>>)
                /\ ~consume.consume => (rx' = rx /\ Head(rx') = cur)
                /\ ret' = consume.result
                /\ tx' = tx)]_vars
    /\ [][(op' = "dispatch" /\ IsControl(cur))
            => (call'.invoked = <<>> /\ l2cap' = l2cap)]_vars

\* C8 witness: a DataCont PDU committed by process_cont after process_cont had
\* rejected it in the call before.
C8_Witness ==
    /\ pc = "idle"
    /\ retried
    /\ cur.kind = "DataCont"
    /\ call.popped = <<cur>>
    /\ call.invoked[1].handler = "process_cont"
    /\ call.invoked[1].returned.consume

\* C9: at most one PDU per call. A call hands at most one PDU to the closure,
\* pops at most one PDU, makes at most one collaborator call and enqueues at
\* most one reply; RX never shrinks by more than one element in a step.
C9_AtMostOnePdu ==
    /\ [](/\ Len(call.dispatched) <= 1
          /\ Len(call.popped) <= 1
          /\ Len(call.invoked) <= 1
          /\ Len(call.replied) <= 1
          /\ call.popped # <<>> => call.popped = call.dispatched)
    /\ [][Len(rx') >= Len(rx) - 1]_vars
    /\ [][Len(replies') <= Len(replies) + 1]_vars

\* C9 witness: a call popped one PDU and enqueued one reply while a second
\* PDU was waiting in RX, which is still there.
C9_Witness ==
    /\ pc = "idle"
    /\ Len(call.popped) = 1
    /\ Len(call.replied) = 1
    /\ Len(rx) = 1
    /\ Len(committed) = 1

\* C10: backpressure is reported. A process_one call on a Control PDU returns
\* Ok exactly when it enqueued the reply and committed the PDU; when it could
\* not enqueue the reply it returns the error of the failed enqueue.
C10_BackpressureReported ==
    (pc = "idle" /\ IsControl(cur))
        => /\ ret = "Ok" <=> (/\ call.replied = <<ExpectedReply(cur.data)>>
                              /\ call.popped = <<cur>>)
           /\ call.replied = <<>> => (ret = "QueueFull" /\ call.popped = <<>>)

\* C10 witness: a call on a Control PDU returned QueueFull, with nothing
\* enqueued and nothing popped.
C10_Witness ==
    /\ pc = "idle"
    /\ IsControl(cur)
    /\ ret = "QueueFull"
    /\ ~retried
    /\ call.replied = <<>>
    /\ call.popped = <<>>

\* C11: non-blocking discipline. In every reachable state the responder
\* context has a step to take whatever the radio does: has_work and
\* process_one can start between calls, and inside a call the closure and the
\* commit/reject step can run, also with TX full; the radio can try an enqueue
\* whatever the state of RX and of the Responder, and can drain TX whenever it
\* holds a PDU.  An enqueue on a full RX fails in that step with RX unchanged,
\* a closure that finds TX full still ends its step, and the step after it
\* ends the call.
C11_NonBlocking ==
    /\ [](/\ pc \in {"idle", "dispatch", "finish"}
          /\ pc = "idle" => (ENABLED HasWork /\ ENABLED ProcessOneBegin)
          /\ pc = "dispatch" => ENABLED Dispatch
          /\ pc = "finish" => ENABLED Finish
          /\ Len(arrived) < MaxPdus => ENABLED (\E pdu \in RxPdus : RadioRx(pdu))
          /\ HasData(tx) => ENABLED RadioTx)
    /\ [][(op' \in {"radio_rx", "radio_rx_full"} /\ Len(rx) >= RxCap)
            => (op' = "radio_rx_full" /\ rx' = rx /\ tx' = tx /\ pc' = pc)]_vars
    /\ [][(pc = "dispatch" /\ pc' # pc) => (op' = "dispatch" /\ pc' = "finish")]_vars
    /\ [][(pc = "finish" /\ pc' # pc) => (op' = "finish" /\ pc' = "idle")]_vars
    /\ [][(op' = "dispatch" /\ Len(tx) >= TxCap) => tx' = tx]_vars

\* C11 witness: the radio's enqueue on a full RX failed at once while the
\* responder context was inside a call whose closure had found TX full.
C11_Witness ==
    /\ op = "radio_rx_full"
    /\ pc = "finish"
    /\ Len(rx) = RxCap
    /\ Len(tx) = TxCap
    /\ ~consume.consume
    /\ consume.result = "QueueFull"

\* C20: the Consumer is in place between calls. The Responder holds its
\* Consumer exactly when no process_one call is under way, so at the entry and
\* at the return of every has_work and process_one; with_rx is entered only
\* with the Consumer in place, never from inside the dispatch closure; the
\* Consumer is out while the closure runs and is back after has_work, after
\* Eof, and after the commit or the reject of a PDU.
C20_ConsumerHeld ==
    /\ [](rxHeld <=> pc = "idle")
    /\ [][op' \in {"has_work", "begin", "eof"} => (rxHeld /\ pc = "idle")]_vars
    /\ [][op' \in {"has_work", "eof", "finish"} => (rxHeld' /\ pc' = "idle")]_vars
    /\ [][op' = "begin" => (~rxHeld' /\ pc' = "dispatch")]_vars
    /\ [][op' = "dispatch" => (~rxHeld /\ ~rxHeld')]_vars
    /\ [][rxHeld' # rxHeld => op' \in {"begin", "finish"}]_vars

\* C20 witness: the Consumer is back in place after a call that rejected its
\* PDU, itself after a call that committed one.
C20_Witness ==
    /\ op = "finish"
    /\ pc = "idle"
    /\ rxHeld
    /\ ~consume.consume
    /\ ret = "QueueFull"
    /\ call.popped = <<>>
    /\ Len(committed) = 1

\* The Control PDUs committed from RX so far, in order.
ControlCommitted == SelectSeq(committed, IsControl)

\* C22: reply before commit. In every state, the states between the closure
\* and the commit included, the replies the Responder has enqueued on TX are
\* as many as the Control PDUs committed from RX or one more, and they are one
\* more exactly between the closure that enqueued a reply and the commit of
\* its PDU; each committed Control PDU has its own reply among them, at its
\* rank.  The step that enqueues a reply removes nothing from RX, and the step
\* that removes a Control PDU from RX finds the reply owed to it already
\* enqueued, as the last one.
C22_ReplyBeforeCommit ==
    /\ [](/\ Len(replies) - Len(ControlCommitted) \in {0, 1}
          /\ Len(replies) - Len(ControlCommitted) = 1
                <=> (pc = "finish" /\ IsControl(cur) /\ consume.consume)
          /\ \A i \in 1..Len(ControlCommitted) :
                replies[i] = ExpectedReply(ControlCommitted[i].data))
    /\ [][replies' # replies
            => (/\ rx' = rx
                /\ committed' = committed
                /\ Len(replies) = Len(ControlCommitted)
                /\ Head(rx) = cur
                /\ tx' = Append(tx, replies'[Len(replies')]))]_vars
    /\ [][(committed' # committed /\ IsControl(cur))
            => (/\ committed' = Append(committed, cur)
                /\ replies' = replies
                /\ Len(replies) = Len(ControlCommitted) + 1
                /\ replies[Len(replies)] = ExpectedReply(cur.data))]_vars

\* C22 witness: between the two steps, the radio has already taken the reply
\* from TX and sent it while the Control PDU it answers is still in RX, a
\* first Control PDU having been answered and committed before.
C22_Witness ==
    /\ pc = "finish"
    /\ op = "radio_tx"
    /\ IsControl(cur)
    /\ consume.consume
    /\ tx = <<>>
    /\ Head(rx) = cur
    /\ Len(ControlCommitted) = 1
    /\ Len(replies) = 2

\* The i-th PDU enqueued into RX is a Control PDU.
ControlArrived(i) == Len(arrived) >= i /\ IsControl(arrived[i])

\* The i-th PDU enqueued into RX is a data PDU and is at the head of RX.
DataAtHead(i) ==
    Len(arrived) >= i /\ IsData(arrived[i]) /\ Len(committed) = i - 1

\* The i-th PDU enqueued into RX has been committed.
Committed(i) == Len(committed) >= i

\* The i-th PDU enqueued into RX, a Control PDU, has its reply enqueued on TX.
Replied(i) ==
    LET rank == Len(SelectSeq(SubSeq(arrived, 1, i), IsControl))
    IN  /\ ControlArrived(i)
        /\ Len(replies) >= rank
        /\ replies[rank] = ExpectedReply(arrived[i].data)

\* C21 as stated: under weak fairness of the radio's drain of TX and of the
\* caller's process_one, every Control PDU enqueued into RX is eventually
\* committed and its reply eventually enqueued on TX.
C21_EveryControlAnswered ==
    \A i \in 1..MaxPdus : ControlArrived(i) ~> (Committed(i) /\ Replied(i))

\* C21, amended: liveness of the PDU at the head of RX. Under the same
\* fairness every Control PDU that is at the head of RX is eventually
\* committed and its reply eventually enqueued on TX, however often TX was
\* found full; and every Control PDU enqueued into RX is, provided no data
\* PDU stays at the head of RX forever, that is, provided the L2CAP
\* collaborator eventually commits each data PDU it is offered.
C21_HeadControlAnswered ==
    /\ \A i \in 1..MaxPdus :
          (ControlArrived(i) /\ Len(committed) = i - 1)
              ~> (Committed(i) /\ Replied(i))
    /\ (\A i \in 1..MaxPdus : []<>~DataAtHead(i))
          => (\A i \in 1..MaxPdus :
                 ControlArrived(i) ~> (Committed(i) /\ Replied(i)))

\* C21 witness: a Control PDU that arrived behind a data PDU has been
\* committed, with its reply enqueued, in a call that came after one that had
\* found TX full and rejected it.
C21_Witness ==
    /\ pc = "idle"
    /\ Len(committed) = 2
    /\ IsData(committed[1])
    /\ IsControl(committed[2])
    /\ cur = committed[2]
    /\ retried
    /\ ret = "Ok"
    /\ call.popped = <<cur>>
    /\ Replied(2)

----------------------------------------------------------------------------
(* Properties of the P-256 providers *)

\* The encodings of the valid public keys: the multiples d*G of the generator
\* by the secret scalars.
ValidKeys ==
    {EncodeKey(ScalarMul(d, Generator).x, ScalarMul(d, Generator).y) :
        d \in Scalars}

\* C5: invalid peer keys are rejected. Whatever the provider and the secret
\* key, agree on the all-zero key, on the attack vector of run_tests, or on
\* any other key that is not a valid point returns InvalidPublicKey and no
\* shared secret; a shared secret comes only with Ok, for a valid point, and
\* is one 32-byte coordinate.
C5_InvalidKeyRejected ==
    agreed.result # "None" =>
        /\ agreed.foreign \in {InfinityKey, AttackKey}
              => agreed.result = "InvalidPublicKey"
        /\ agreed.foreign \notin ValidKeys
              => (agreed.result = "InvalidPublicKey" /\ agreed.shared = <<>>)
        /\ agreed.shared # <<>>
              => (/\ agreed.result = "Ok"
                  /\ agreed.foreign \in ValidKeys
                  /\ Len(agreed.shared) = CoordLen)
        /\ agreed.result \in {"Ok", "InvalidPublicKey"}

\* C5 witness: a nisty secret key refused a key whose coordinates are in the
\* field but which is not on the curve.
C5_Witness ==
    /\ agreed.provider = "nisty"
    /\ agreed.foreign = EncodeKey(1, 6)
    /\ agreed.result = "InvalidPublicKey"
    /\ agreed.shared = <<>>
    /\ keys = <<>>

\* C12: ECDH symmetry. In run_tests (two key pairs of one provider) and in
\* ring_nisty_agreement (one key pair of each provider), secret1.agree(public2)
\* and secret2.agree(public1) both return Ok, and the two shared secrets are
\* the same 32 bytes; no unwrap and no assert_eq of the tests fails.
C12_EcdhSymmetry ==
    /\ test.shared1.result # "None"
          => (/\ test.shared1.result = "Ok"
              /\ Len(test.shared1.shared) = CoordLen)
    /\ test.shared2.result # "None"
          => (/\ test.shared2.result = "Ok"
              /\ Len(test.shared2.shared) = CoordLen
              /\ test.shared2.shared = test.shared1.shared)
    /\ fault \notin {"unwrap", "assert_eq", "agree"}

\* C12 witness: ring_nisty_agreement ended with a shared secret computed by a
\* ring secret key from a nisty public key and by the nisty secret key from
\* the ring public key, the two public keys being different.
C12_Witness ==
    /\ test.name = "ring_nisty_agreement"
    /\ test.pc = "done"
    /\ test.shared1.result = "Ok"
    /\ test.shared2.result = "Ok"
    /\ test.shared1.shared = test.shared2.shared
    /\ test.public1 # test.public2
    /\ fault = "none"

\* C13: agree has two outcomes. Every agree call on a 64-byte key a peer can
\* send, valid or not, returned Ok or InvalidPublicKey and no call panicked;
\* and for every secret key alive, every key that passes nisty's conversion
\* is one for which the backend agreement succeeds, so the unwrap in
\* NistySecretKey::agree cannot fail.
C13_AgreeNeverPanics ==
    /\ agreed.result \in {"None", "Ok", "InvalidPublicKey"}
    /\ agreed.result # "None" => Len(agreed.foreign) = KeyLen
    /\ fault \notin {"unwrap", "agree"}
    /\ \A i \in 1..Len(keys), fk \in ForeignKeys :
          NistyTryFromBytes(fk).ok
              => NistyBackendAgree(keys[i].secret, NistyTryFromBytes(fk).point).ok

\* C13 witness: a nisty secret key agreed on the valid point -G, past the
\* conversion and past the unwrap.
C13_Witness ==
    /\ agreed.provider = "nisty"
    /\ agreed.foreign = EncodeKey(1, 5)
    /\ agreed.result = "Ok"
    /\ Len(agreed.shared) = CoordLen
    /\ fault = "none"

\* C14: single-use secret keys. Every step that makes an agreement takes
\* exactly one of the secret keys alive out of the caller's hands, the one the
\* agreement was made with, whether the agreement succeeded or returned
\* InvalidPublicKey; keys leave the caller's hands in no other way, and the
\* only keys that appear are new ones from generate_keypair.  A key that took
\* part in an agree call is therefore not there for a second one.
C14_SingleUse ==
    /\ [][(agreed' # agreed /\ agreed'.result # "None")
            => (\E i \in 1..Len(keys) :
                   /\ keys' = [j \in 1..(Len(keys) - 1) |->
                                  IF j < i THEN keys[j] ELSE keys[j + 1]]
                   /\ agreed'.provider = keys[i].provider
                   /\ agreed'.result = SecretKeyAgree(keys[i], agreed'.foreign).result
                   /\ agreed'.result \in {"Ok", "InvalidPublicKey"})]_vars
    /\ [][Len(keys') < Len(keys)
            => (Len(keys') = Len(keys) - 1 /\ agreed'.result # "None")]_vars
    /\ [][Len(keys') > Len(keys)
            => keys' = Append(keys, keys'[Len(keys')])]_vars

\* C14 witness: a ring secret key was used on the point at infinity, got
\* InvalidPublicKey, and is gone.
C14_Witness ==
    /\ agreed.provider = "ring"
    /\ agreed.foreign = InfinityKey
    /\ agreed.result = "InvalidPublicKey"
    /\ keys = <<>>
    /\ fault = "none"

\* C15: generate_keypair returns valid key pairs. Every secret key alive, of
\* either provider and whatever was left in the rng, has a scalar in 1..n-1
\* and a 64-byte public key that is not the all-zero key, is on the curve and
\* is the secret scalar times the generator; and an agreement against it by
\* any valid secret key of either provider returns Ok.
C15_GeneratedKeysValid ==
    \A i \in 1..Len(keys) :
        /\ keys[i].secret \in Scalars
        /\ Len(keys[i].public) = KeyLen
        /\ keys[i].public # InfinityKey
        /\ OnCurve(KeyX(keys[i].public), KeyY(keys[i].public))
        /\ keys[i].public =
               EncodeKey(ScalarMul(keys[i].secret, Generator).x,
                         ScalarMul(keys[i].secret, Generator).y)
        /\ \A d \in Scalars :
               /\ RingAgree(d, keys[i].public).result = "Ok"
               /\ NistyAgree(d, keys[i].public).result = "Ok"

\* C15 witness: the key pair NistyProvider made from the last 32 bytes of the
\* stream, which is empty now.
C15_Witness ==
    /\ Len(keys) = 1
    /\ keys[1].provider = "nisty"
    /\ rng = <<>>
    /\ keys[1].public \in ValidKeys
    /\ fault = "none"

\* The second of two successive generate_keypair calls on one provider and
\* one rng has just returned: in run_tests, and in any other caller.
AfterSecondKeypair ==
    /\ \/ test.name = "run_tests" /\ test.pc = "agree1"
       \/ test.name = "caller" /\ test.pc = "done"
    /\ test.public2 # <<>>

\* C16 as claimed: two successive generate_keypair calls on the same provider
\* and the same rng return different public keys.
C16_AlwaysDistinct ==
    AfterSecondKeypair => test.public1 # test.public2

\* C16, amended: two successive generate_keypair calls on the same provider
\* and the same rng return different public keys exactly when the two secret
\* scalars differ.  NistyProvider's second call draws the 32 bytes that follow
\* the 32 the first call consumed, so its two keys are those of the first and
\* of the second block of the stream: they are the same when the two blocks
\* are the same, and they differ for the stream of run_tests, whose assert_ne
\* holds.  RingProvider leaves the rng alone.
C16_DistinctIffEntropyDiffers ==
    AfterSecondKeypair
        => /\ test.public1 = test.public2
                 <=> test.secret1.secret = test.secret2.secret
           /\ test.provider = "nisty"
                 => (/\ rng = SubSeq(test.stream, 2 * SeedLen + 1, Len(test.stream))
                     /\ test.public1 = NistyGeneratePatiently(
                            SubSeq(test.stream, 1, SeedLen)).public
                     /\ test.public2 = NistyGeneratePatiently(
                            SubSeq(test.stream, SeedLen + 1, 2 * SeedLen)).public
                     /\ SubSeq(test.stream, 1, SeedLen)
                            = SubSeq(test.stream, SeedLen + 1, 2 * SeedLen)
                           => test.public1 = test.public2
                     /\ test.stream = RNG
                           => (test.public1 # test.public2 /\ fault # "assert_ne"))
           /\ test.provider = "ring" => rng = test.stream

\* C16 witness: run_tests has made its two key pairs with NistyProvider, from
\* the two halves of its stream, and they differ.
C16_Witness ==
    /\ test.name = "run_tests"
    /\ test.provider = "nisty"
    /\ test.pc = "agree1"
    /\ test.public1 # test.public2
    /\ rng = <<>>
    /\ fault = "none"

\* The secret keys a test function holds at the moment.
HeldKeys == {test.secret1, test.secret2, test.secret} \ {NoKeypair}

\* C17: wire format of the ring provider. Every public key RingProvider
\* returned is 64 bytes, X then Y of the key's point, and is ring's 65-byte
\* encoding without its first octet, which is 0x04: putting 0x04 back in front
\* gives ring's encoding again.  And RingSecretKey::agree on a 64-byte key
\* hands the backend the point whose X and Y those bytes are: the shared
\* secret is the coordinate of the secret scalar times that point.
C17_RingWireFormat ==
    /\ [](\A k \in HeldKeys :
             k.provider = "ring"
                 => (/\ Len(k.public) = KeyLen
                     /\ Len(RingComputePublicKey(k.secret)) = KeyLen + 1
                     /\ RingComputePublicKey(k.secret)[1] = 4
                     /\ <<4>> \o k.public = RingComputePublicKey(k.secret)
                     /\ k.public = EncodeKey(ScalarMul(k.secret, Generator).x,
                                             ScalarMul(k.secret, Generator).y)))
    /\ [][(test.pc = "agree1" /\ test'.pc = "agree2"
                /\ test.secret1.provider = "ring")
            => test'.shared1 =
                  AgreeOk(EncodeCoord(
                      ScalarMul(test.secret1.secret,
                                Point(KeyX(test.public2), KeyY(test.public2))).x))]_vars

\* C17 witness: in run_tests a ring secret key has agreed on the public key
\* RingProvider returned for another scalar.
C17_Witness ==
    /\ test.name = "run_tests"
    /\ test.provider = "ring"
    /\ test.pc = "agree2"
    /\ test.shared1.result = "Ok"
    /\ test.secret2.provider = "ring"
    /\ test.public1 # test.public2

\* C18: fill_bytes of the deterministic Rng. A call for n bytes with at least
\* n bytes left writes the next n bytes of the stream in order and advances the
\* stream by exactly n; the call terminates abnormally exactly when fewer than
\* n bytes are left, whatever n and whatever is left, 0 included; and
\* run_tests does not run out of entropy.
C18_FillBytesExact ==
    /\ fillCall.called
          => (/\ fillCall.panic # "none" <=> Len(fillCall.before) < fillCall.n
              /\ Len(fillCall.before) >= fillCall.n
                    => (/\ fillCall.dest = SubSeq(fillCall.before, 1, fillCall.n)
                        /\ fillCall.rest =
                               SubSeq(fillCall.before, fillCall.n + 1,
                                      Len(fillCall.before))
                        /\ Len(fillCall.rest) =
                               Len(fillCall.before) - fillCall.n))
    /\ test.name = "run_tests" => fault # "ran out of pregenerated entropy"

\* C19: entropy consumption. A generate_keypair call of NistyProvider that
\* returns takes exactly the next 32 bytes from the rng, and the public key it
\* returns is the one the backend derives from those 32 bytes and nothing
\* else, so the same stream gives the same keys; a call of RingProvider
\* leaves the rng as it was.
C19_EntropyConsumption ==
    [][Len(keys') > Len(keys)
         => (/\ keys'[Len(keys')].provider = "nisty"
                   => (/\ Len(rng) >= SeedLen
                       /\ rng' = SubSeq(rng, SeedLen + 1, Len(rng))
                       /\ Len(rng') = Len(rng) - SeedLen
                       /\ keys'[Len(keys')].public =
                              NistyGeneratePatiently(SubSeq(rng, 1, SeedLen)).public)
             /\ keys'[Len(keys')].provider = "ring" => rng' = rng
             /\ keys'[Len(keys')].provider \in Providers)]_vars

\* C19 witness: NistyProvider has made a key pair from the first 32 bytes of
\* the stream, and the last 32 are left.
C19_Witness ==
    /\ Len(keys) = 1
    /\ keys[1].provider = "nisty"
    /\ keys[1].public = NistyGeneratePatiently(SubSeq(RNG, 1, SeedLen)).public
    /\ rng = SubSeq(RNG, SeedLen + 1, Len(RNG))
    /\ fault = "none"

====
